---- MODULE Spec2Model ----
(***************************************************************************)
(* Model of LineBreakData (viewModel.ts) and BaseGhostTextWidgetModel       *)
(* (ghostText.ts).                                                          *)
(*                                                                          *)
(* LineBreakData is an immutable value with two pure conversions between    *)
(* the offsets of a logical line and the positions in its wrapped output.   *)
(* Init draws one LineBreakData from a bounded family and the actions call  *)
(* its two methods with valid arguments.                                    *)
(*                                                                          *)
(* BaseGhostTextWidgetModel is a small state machine: the field _expanded,  *)
(* the configuration-change listener and setExpanded, with the             *)
(* notifications of onDidChange recorded in the order they are delivered.   *)
(***************************************************************************)
EXTENDS Integers, Sequences, FiniteSets

\* ------------------------------------------------------------------ bounds
MaxOutputLength == 4   \* length of a line's output: its text and injected text
MaxInjections == 2     \* injected spans of a line
MaxIndent == 1         \* wrappedTextIndentLength
MaxEvents == 4         \* calls on a widget model

VARIABLES
    hasLineBreakData,       \* FALSE: finalize() returned null for the line
    lineLength,             \* length of the logical line
    breakOffsets,           \* LineBreakData.breakOffsets
    wrappedTextIndentLength,\* LineBreakData.wrappedTextIndentLength
    injectionOffsetsIsNull, \* LineBreakData.injectionOffsets === null
    injectionOffsets,       \* LineBreakData.injectionOffsets
    injectionOptions,       \* injectionOptions[i].content.length
    call,                   \* the method called last
    inputOffset,            \* its input offset (argument or result)
    outputPosition,         \* its OutputPosition (result or argument)
    _expanded,              \* BaseGhostTextWidgetModel._expanded
    log                     \* calls on the widget model, with the number of
                            \* onDidChange notifications each delivered

lbdVars == <<hasLineBreakData, lineLength, breakOffsets, wrappedTextIndentLength,
             injectionOffsetsIsNull, injectionOffsets, injectionOptions>>
callVars == <<call, inputOffset, outputPosition>>
ghostVars == <<_expanded, log>>
vars == <<lbdVars, callVars, ghostVars>>

\* ------------------------------------------------------------- helpers
RECURSIVE SumSeq(_)
SumSeq(s) == IF s = <<>> THEN 0 ELSE Head(s) + SumSeq(Tail(s))

SetMin(S) == CHOOSE x \in S : \A y \in S : x <= y

RECURSIVE SortedSeq(_)
SortedSeq(S) == IF S = {} THEN <<>>
                ELSE <<SetMin(S)>> \o SortedSeq(S \ {SetMin(S)})

\* ------------------------------------------------------------- OutputPosition
OutputPosition(outputLineIndex, outputOffset) ==
    [outputLineIndex |-> outputLineIndex, outputOffset |-> outputOffset]

\* ------------------------------------------------ getInputOffsetOfOutputPosition
\* The loop over the injected spans, from index i with the current offset.
RECURSIVE InjectionWalk(_, _)
InjectionWalk(i, offset) ==
    IF i > Len(injectionOffsets) THEN offset
    ELSE IF offset > injectionOffsets[i]
         THEN IF offset < injectionOffsets[i] + injectionOptions[i]
              THEN InjectionWalk(i + 1, injectionOffsets[i])
              ELSE InjectionWalk(i + 1, offset - injectionOptions[i])
         ELSE offset

\* The same loop without the clamp to the span's start.
RECURSIVE InjectionWalk_NoClamp(_, _)
InjectionWalk_NoClamp(i, offset) ==
    IF i > Len(injectionOffsets) THEN offset
    ELSE IF offset > injectionOffsets[i]
         THEN InjectionWalk_NoClamp(i + 1, offset - injectionOptions[i])
         ELSE offset

RawOffset(outputLineIndex, outputOffset) ==
    IF outputLineIndex = 0 THEN outputOffset
    ELSE breakOffsets[outputLineIndex] + outputOffset

getInputOffsetOfOutputPosition_NoClamp(outputLineIndex, outputOffset) ==
    IF injectionOffsetsIsNull THEN RawOffset(outputLineIndex, outputOffset)
    ELSE InjectionWalk_NoClamp(1, RawOffset(outputLineIndex, outputOffset))

\* Reads breakOffsets[outputLineIndex] where the code reads [outputLineIndex - 1].
getInputOffsetOfOutputPosition_OffByOne(outputLineIndex, outputOffset) ==
    LET raw == IF outputLineIndex = 0 THEN outputOffset
               ELSE breakOffsets[outputLineIndex + 1] + outputOffset
    IN IF injectionOffsetsIsNull THEN raw ELSE InjectionWalk(1, raw)

getInputOffsetOfOutputPosition(outputLineIndex, outputOffset) ==
    IF injectionOffsetsIsNull THEN RawOffset(outputLineIndex, outputOffset)
    ELSE InjectionWalk(1, RawOffset(outputLineIndex, outputOffset))

\* ------------------------------------------------ getOutputPositionOfInputOffset
\* The first loop: the content lengths added to delta from index i on.
RECURSIVE Delta(_, _)
Delta(i, offset) ==
    IF i > Len(injectionOffsets) THEN 0
    ELSE IF offset <= injectionOffsets[i] THEN 0
         ELSE injectionOptions[i] + Delta(i + 1, offset)

\* The loop with `<` for `<=`: a span that starts at the offset is counted.
RECURSIVE Delta_AtOrBefore(_, _)
Delta_AtOrBefore(i, offset) ==
    IF i > Len(injectionOffsets) THEN 0
    ELSE IF offset < injectionOffsets[i] THEN 0
         ELSE injectionOptions[i] + Delta_AtOrBefore(i + 1, offset)

\* The loop with `delta =` for `delta +=`: only the last span is counted.
RECURSIVE Delta_LastOnly(_, _, _)
Delta_LastOnly(i, offset, delta) ==
    IF i > Len(injectionOffsets) THEN delta
    ELSE IF offset <= injectionOffsets[i] THEN delta
         ELSE Delta_LastOnly(i + 1, offset, injectionOptions[i])

\* The while loop.  Sequences are 1-based: breakOffsets[mid + 1] is the
\* code's breakOffsets[mid].  `low + ((high - low) / 2) | 0` parses as
\* (low + (high - low) / 2) | 0, the integer part of a non-negative number.
\* steps counts the iterations.
RECURSIVE BinarySearch(_, _, _, _, _, _)
BinarySearch(a, low, high, mid, midStart, steps) ==
    IF low <= high
    THEN LET m == (2 * low + (high - low)) \div 2
             midStop == breakOffsets[m + 1]
             mStart == IF m > 0 THEN breakOffsets[m] ELSE 0
         IN IF a < mStart THEN BinarySearch(a, low, m - 1, m, mStart, steps + 1)
            ELSE IF a >= midStop THEN BinarySearch(a, m + 1, high, m, mStart, steps + 1)
            ELSE [mid |-> m, midStart |-> mStart, steps |-> steps + 1]
    ELSE [mid |-> mid, midStart |-> midStart, steps |-> steps]

\* The loop with `low < high` for `low <= high`.
RECURSIVE BinarySearch_Strict(_, _, _, _, _, _)
BinarySearch_Strict(a, low, high, mid, midStart, steps) ==
    IF low < high
    THEN LET m == (2 * low + (high - low)) \div 2
             midStop == breakOffsets[m + 1]
             mStart == IF m > 0 THEN breakOffsets[m] ELSE 0
         IN IF a < mStart THEN BinarySearch_Strict(a, low, m - 1, m, mStart, steps + 1)
            ELSE IF a >= midStop THEN BinarySearch_Strict(a, m + 1, high, m, mStart, steps + 1)
            ELSE [mid |-> m, midStart |-> mStart, steps |-> steps + 1]
    ELSE [mid |-> mid, midStart |-> midStart, steps |-> steps]

\* The loop with `inputOffset > midStop` for `inputOffset >= midStop`.
RECURSIVE BinarySearch_Closed(_, _, _, _, _, _)
BinarySearch_Closed(a, low, high, mid, midStart, steps) ==
    IF low <= high
    THEN LET m == (2 * low + (high - low)) \div 2
             midStop == breakOffsets[m + 1]
             mStart == IF m > 0 THEN breakOffsets[m] ELSE 0
         IN IF a < mStart THEN BinarySearch_Closed(a, low, m - 1, m, mStart, steps + 1)
            ELSE IF a > midStop THEN BinarySearch_Closed(a, m + 1, high, m, mStart, steps + 1)
            ELSE [mid |-> m, midStart |-> mStart, steps |-> steps + 1]
    ELSE [mid |-> mid, midStart |-> midStart, steps |-> steps]

SearchBreakOffsets_Strict(a) ==
    BinarySearch_Strict(a, 0, Len(breakOffsets) - 1, 0, 0, 0)

SearchBreakOffsets_Closed(a) ==
    BinarySearch_Closed(a, 0, Len(breakOffsets) - 1, 0, 0, 0)

\* Lines 152-170: the search for the adjusted offset a.
SearchBreakOffsets(a) ==
    BinarySearch(a, 0, Len(breakOffsets) - 1, 0, 0, 0)

AdjustedOffset_AtOrBefore(offset) ==
    offset + (IF injectionOffsetsIsNull THEN 0 ELSE Delta_AtOrBefore(1, offset))

AdjustedOffset_LastOnly(offset) ==
    offset + (IF injectionOffsetsIsNull THEN 0 ELSE Delta_LastOnly(1, offset, 0))

\* Lines 141-150: inputOffset after `inputOffset += delta`.
AdjustedOffset(offset) ==
    offset + (IF injectionOffsetsIsNull THEN 0 ELSE Delta(1, offset))

getOutputPositionOfInputOffset(offset) ==
    LET a == AdjustedOffset(offset)
        r == SearchBreakOffsets(a)
    IN OutputPosition(r.mid, a - r.midStart)


\* ------------------------------------------------------------- layout
\* Length of the line's output: its text and its injected text.
OutputLength == lineLength + SumSeq(injectionOptions)

\* Start and exclusive end of output segment i (0-based).
SegmentStart(i) == IF i = 0 THEN 0 ELSE breakOffsets[i]
SegmentEnd(i) == IF breakOffsets = <<>> THEN OutputLength ELSE breakOffsets[i + 1]

\* The output line indices of the line.
OutputLines == 0 .. (IF breakOffsets = <<>> THEN 0 ELSE Len(breakOffsets) - 1)

\* breakOffsets strictly increasing and ending at the output length,
\* injectionOffsets strictly increasing offsets of the line.
WellFormed ==
    /\ hasLineBreakData
    /\ breakOffsets # <<>>
    /\ breakOffsets[1] > 0
    /\ \A i \in 1 .. Len(breakOffsets) - 1 : breakOffsets[i] < breakOffsets[i + 1]
    /\ breakOffsets[Len(breakOffsets)] = OutputLength
    /\ Len(injectionOffsets) = Len(injectionOptions)
    /\ \A i \in 1 .. Len(injectionOffsets) - 1 : injectionOffsets[i] < injectionOffsets[i + 1]
    /\ \A i \in 1 .. Len(injectionOffsets) : injectionOffsets[i] \in 0 .. lineLength

\* ------------------------------------------------------------- ghost text
\* The getter `expanded`.
expanded == IF _expanded = "undefined" THEN TRUE ELSE _expanded = "true"

LogEntry(op, arg, fired) == [op |-> op, arg |-> arg, fired |-> fired]

\* ------------------------------------------------------------- Init
InitGhostText ==
    /\ _expanded = "undefined"
    /\ log = <<>>

InitCall ==
    /\ call = "none"
    /\ inputOffset = 0
    /\ outputPosition = OutputPosition(0, 0)

\* finalize() returned null: the line is not wrapped and has no LineBreakData.
InitUnwrapped ==
    /\ hasLineBreakData = FALSE
    /\ lineLength \in 0 .. MaxOutputLength
    /\ breakOffsets = <<>>
    /\ wrappedTextIndentLength = 0
    /\ injectionOffsetsIsNull = TRUE
    /\ injectionOffsets = <<>>
    /\ injectionOptions = <<>>

\* new LineBreakData(breakOffsets, _, wrappedTextIndentLength, injectionOffsets, injectionOptions)
InitLineBreakData ==
    /\ hasLineBreakData = TRUE
    /\ lineLength \in 0 .. MaxOutputLength
    /\ wrappedTextIndentLength \in 0 .. MaxIndent
    /\ \E S \in SUBSET (0 .. lineLength) :
          /\ Cardinality(S) <= MaxInjections
          /\ injectionOffsets = SortedSeq(S)
          /\ injectionOptions \in [1 .. Cardinality(S) -> 0 .. MaxOutputLength - lineLength]
          /\ lineLength + SumSeq(injectionOptions) <= MaxOutputLength
          /\ injectionOffsetsIsNull \in (IF S = {} THEN BOOLEAN ELSE {FALSE})
    /\ \/ /\ OutputLength >= 1
          /\ \E B \in SUBSET (1 .. OutputLength - 1) :
                breakOffsets = SortedSeq(B \cup {OutputLength})
       \/ breakOffsets = <<>>

Init ==
    /\ InitUnwrapped \/ InitLineBreakData
    /\ InitCall
    /\ InitGhostText

\* ------------------------------------------------------------- actions
GetOutputPositionOfInputOffset(o) ==
    /\ hasLineBreakData
    /\ call' = "getOutputPositionOfInputOffset"
    /\ inputOffset' = o
    /\ outputPosition' = getOutputPositionOfInputOffset(o)
    /\ UNCHANGED <<lbdVars, ghostVars>>

GetInputOffsetOfOutputPosition(outputLineIndex, outputOffset) ==
    /\ hasLineBreakData
    /\ call' = "getInputOffsetOfOutputPosition"
    /\ outputPosition' = OutputPosition(outputLineIndex, outputOffset)
    /\ inputOffset' = getInputOffsetOfOutputPosition(outputLineIndex, outputOffset)
    /\ UNCHANGED <<lbdVars, ghostVars>>

Next ==
    \/ \E o \in 0 .. lineLength : GetOutputPositionOfInputOffset(o)
    \/ \E i \in OutputLines : \E off \in 0 .. SegmentEnd(i) - SegmentStart(i) :
          GetInputOffsetOfOutputPosition(i, off)

Spec == Init /\ [][Next]_vars

\* The listener of editor.onDidChangeConfiguration; hasChanged is
\* e.hasChanged(EditorOption.suggest).
OnDidChangeConfiguration_Always(hasChanged) ==
    /\ Len(log) < MaxEvents
    /\ log' = Append(log, LogEntry("onDidChangeConfiguration", hasChanged,
                                   IF hasChanged THEN 1 ELSE 0))
    /\ UNCHANGED <<_expanded, lbdVars, callVars>>

OnDidChangeConfiguration(hasChanged) ==
    /\ Len(log) < MaxEvents
    /\ log' = Append(log, LogEntry("onDidChangeConfiguration", hasChanged,
                                   IF hasChanged /\ _expanded = "undefined" THEN 1 ELSE 0))
    /\ UNCHANGED <<_expanded, lbdVars, callVars>>

\* setExpanded that stores its argument.
SetExpanded_StoresArgument(arg) ==
    /\ Len(log) < MaxEvents
    /\ _expanded' = IF arg THEN "true" ELSE "false"
    /\ log' = Append(log, LogEntry("setExpanded", arg, 1))
    /\ UNCHANGED <<lbdVars, callVars>>

SetExpanded(arg) ==
    /\ Len(log) < MaxEvents
    /\ _expanded' = "true"
    /\ log' = Append(log, LogEntry("setExpanded", arg, 1))
    /\ UNCHANGED <<lbdVars, callVars>>

GhostInit ==
    /\ InitUnwrapped
    /\ lineLength = 0
    /\ InitCall
    /\ InitGhostText

GhostNext ==
    \/ \E hasChanged \in BOOLEAN : OnDidChangeConfiguration(hasChanged)
    \/ \E arg \in BOOLEAN : SetExpanded(arg)

GhostSpec == GhostInit /\ [][GhostNext]_vars


\* ============================================================= properties

\* Sum of the content lengths of the spans with index in I.
RECURSIVE ContentLengthOf(_)
ContentLengthOf(I) ==
    IF I = {} THEN 0
    ELSE LET i == SetMin(I) IN injectionOptions[i] + ContentLengthOf(I \ {i})

Spans == 1 .. Len(injectionOffsets)

ContentBefore(o) == ContentLengthOf({i \in Spans : injectionOffsets[i] < o})
ContentAtOrBefore(o) == ContentLengthOf({i \in Spans : injectionOffsets[i] <= o})

\* Offset in the whole output of an output position.
OutputOffsetOf(p) == SegmentStart(p.outputLineIndex) + p.outputOffset

CalledGetOutput == hasLineBreakData /\ call = "getOutputPositionOfInputOffset"
CalledGetInput == hasLineBreakData /\ call = "getInputOffsetOfOutputPosition"

\* ------------------------------------------------------------------- C1
\* C1: round trip.  On a well-formed LineBreakData, the position returned by
\* getOutputPositionOfInputOffset(o) is mapped back to o by
\* getInputOffsetOfOutputPosition: the position just returned for o converts
\* to o, and a conversion of the position of any offset o has returned o.
C1_RoundTrip ==
    WellFormed =>
        /\ CalledGetOutput =>
              getInputOffsetOfOutputPosition(outputPosition.outputLineIndex,
                                             outputPosition.outputOffset) = inputOffset
        /\ CalledGetInput =>
              \A o \in 0 .. lineLength :
                  getOutputPositionOfInputOffset(o) = outputPosition => inputOffset = o

\* The position of an injection's start offset (content not empty) on a
\* wrapped line has been converted back.
C1_Witness ==
    /\ WellFormed
    /\ CalledGetInput
    /\ Len(breakOffsets) >= 2
    /\ \E i \in Spans : injectionOffsets[i] = inputOffset /\ injectionOptions[i] > 0
    /\ outputPosition = getOutputPositionOfInputOffset(inputOffset)
    /\ outputPosition.outputLineIndex >= 1

\* ------------------------------------------------------------------- C2
\* C2 as stated: the position returned for input offset o is o plus the
\* content lengths of the spans that start at or before o.
C2_AtOrBefore ==
    CalledGetOutput =>
        OutputOffsetOf(outputPosition) = inputOffset + ContentAtOrBefore(inputOffset)

\* C2 amended: the adjusted offset is o plus the content lengths of the spans
\* that start strictly before o, and the returned position is that adjusted
\* offset located in breakOffsets; an offset equal to a span's start is not
\* shifted by that span.
C2_StrictlyBefore ==
    CalledGetOutput =>
            LET p == outputPosition
                a == inputOffset + ContentBefore(inputOffset)
            IN /\ OutputOffsetOf(p) = a
               /\ p.outputLineIndex \in OutputLines
               /\ SegmentStart(p.outputLineIndex) <= a
               /\ \/ a < SegmentEnd(p.outputLineIndex)
                  \/ p.outputLineIndex = Len(breakOffsets) - 1
                  \/ breakOffsets = <<>>

\* getOutputPositionOfInputOffset was called with the start offset of a span
\* with content, after an earlier span with content.
C2_Witness ==
    /\ hasLineBreakData
    /\ CalledGetOutput
    /\ Len(injectionOffsets) = 2
    /\ injectionOffsets[2] = inputOffset
    /\ injectionOptions[1] > 0 /\ injectionOptions[2] > 0
    /\ OutputOffsetOf(outputPosition) = inputOffset + injectionOptions[1]

\* ------------------------------------------------------------------- C3
\* C3: injection boundary.  On a line without wrapping and with one span of
\* content length L at offset k: offset k maps to output offset k, every
\* offset o > k maps to o + L, and output position (0, k) maps back to k.
C3_InjectionBoundary ==
    (/\ hasLineBreakData
     /\ Len(breakOffsets) <= 1
     /\ Len(injectionOffsets) = 1) =>
        LET k == injectionOffsets[1]
            L == injectionOptions[1]
        IN /\ (CalledGetOutput /\ inputOffset = k) =>
                 outputPosition = OutputPosition(0, k)
           /\ (CalledGetOutput /\ inputOffset > k) =>
                 outputPosition = OutputPosition(0, inputOffset + L)
           /\ (CalledGetInput /\ outputPosition = OutputPosition(0, k)) =>
                 inputOffset = k

\* The position before the injected text of an unwrapped line was converted
\* back, and there are offsets after the span.
C3_Witness ==
    /\ hasLineBreakData
    /\ Len(breakOffsets) = 1
    /\ Len(injectionOffsets) = 1
    /\ injectionOptions[1] > 0
    /\ 0 < injectionOffsets[1] /\ injectionOffsets[1] < lineLength
    /\ CalledGetInput
    /\ outputPosition = OutputPosition(0, injectionOffsets[1])
    /\ inputOffset = injectionOffsets[1]

\* ------------------------------------------------------------------- C4
\* First and last output offset of span k: its start plus the content of the
\* earlier spans, and that plus its own content.
ExtentStart(k) == injectionOffsets[k] + ContentLengthOf(1 .. (k - 1))
ExtentEnd(k) == ExtentStart(k) + injectionOptions[k]

\* C4: snapping.  For the output position converted, with raw output offset r:
\* if r lies in the extent of span k (ends included) the result is the
\* span's start offset; otherwise it is r minus the content of the spans
\* that end before r.  The result is at most lineLength.
C4_Snapping ==
    CalledGetInput =>
            LET r == OutputOffsetOf(outputPosition)
                res == inputOffset
            IN /\ \A k \in Spans :
                    (ExtentStart(k) <= r /\ r <= ExtentEnd(k)) => res = injectionOffsets[k]
               /\ (\A k \in Spans : r < ExtentStart(k) \/ r > ExtentEnd(k)) =>
                     res = r - ContentLengthOf({k \in Spans : ExtentEnd(k) < r})
               /\ res <= lineLength

\* A position strictly inside the content of the second span was converted.
C4_Witness ==
    /\ hasLineBreakData
    /\ CalledGetInput
    /\ Len(injectionOffsets) = 2
    /\ injectionOptions[1] > 0
    /\ ExtentStart(2) < OutputOffsetOf(outputPosition)
    /\ OutputOffsetOf(outputPosition) < ExtentEnd(2)
    /\ inputOffset = injectionOffsets[2]

\* ------------------------------------------------------------------- C5
\* Position p is input offset o placed by half-open membership.
HalfOpen(o, p) ==
    LET a == AdjustedOffset(o)
        mid == p.outputLineIndex
    IN /\ mid \in OutputLines
       /\ breakOffsets[mid + 1] > a
       /\ SegmentStart(mid) <= a
       /\ \A j \in OutputLines : breakOffsets[j + 1] > a => mid <= j
       /\ p.outputOffset = a - SegmentStart(mid)
       /\ 0 <= p.outputOffset
       /\ p.outputOffset < SegmentEnd(mid) - SegmentStart(mid)

\* C5 as stated: half-open membership for every offset of the line,
\* o = lineLength included.
C5_HalfOpenEverywhere ==
    (WellFormed /\ CalledGetOutput) => HalfOpen(inputOffset, outputPosition)

\* C5 amended: half-open membership holds for every offset whose adjusted
\* offset is below the last break offset; when the adjusted offset equals
\* the last break offset (o = lineLength), the last segment is returned with
\* outputOffset equal to that segment's length.
C5_HalfOpenBelowEnd ==
    (WellFormed /\ CalledGetOutput) =>
            LET o == inputOffset
                a == AdjustedOffset(o)
                p == outputPosition
                last == Len(breakOffsets) - 1
            IN /\ a <= breakOffsets[last + 1]
               /\ a < breakOffsets[last + 1] => HalfOpen(o, p)
               /\ a = breakOffsets[last + 1] =>
                     /\ o = lineLength
                     /\ p = OutputPosition(last, SegmentEnd(last) - SegmentStart(last))

\* An offset whose adjusted offset is a break offset other than the last was
\* converted: the tie goes to the start of the next segment.
C5_Witness ==
    /\ WellFormed
    /\ Len(breakOffsets) >= 3
    /\ CalledGetOutput
    /\ outputPosition.outputLineIndex >= 1
    /\ outputPosition.outputOffset = 0
    /\ AdjustedOffset(inputOffset) = breakOffsets[outputPosition.outputLineIndex]

\* ------------------------------------------------------------------- C6
LexLeq(p, q) ==
    \/ p.outputLineIndex < q.outputLineIndex
    \/ p.outputLineIndex = q.outputLineIndex /\ p.outputOffset <= q.outputOffset

\* C6: monotonicity.  On a well-formed line the position returned for an
\* offset is lexicographically at least the position of every smaller offset
\* and at most the position of every larger one.
C6_Monotonic ==
    (WellFormed /\ CalledGetOutput) =>
        /\ \A o1 \in 0 .. (inputOffset - 1) :
              LexLeq(getOutputPositionOfInputOffset(o1), outputPosition)
        /\ \A o2 \in (inputOffset + 1) .. lineLength :
              LexLeq(outputPosition, getOutputPositionOfInputOffset(o2))

\* An offset after two spans with content was converted on a wrapped line and
\* lies on a later output line than the offset before it.
C6_Witness ==
    /\ WellFormed
    /\ CalledGetOutput
    /\ Len(breakOffsets) >= 2
    /\ Len(injectionOffsets) = 2
    /\ injectionOptions[1] > 0 /\ injectionOptions[2] > 0
    /\ inputOffset > injectionOffsets[2]
    /\ outputPosition.outputLineIndex >
          getOutputPositionOfInputOffset(inputOffset - 1).outputLineIndex

\* ------------------------------------------------------------------- C7
\* The reference: the first index whose break offset exceeds a, the last
\* index when there is none, index 0 with start 0 for the empty array.
LinearScan(a) ==
    IF breakOffsets = <<>> THEN OutputPosition(0, a)
    ELSE LET above == {i \in 1 .. Len(breakOffsets) : breakOffsets[i] > a}
             i == IF above = {} THEN Len(breakOffsets) ELSE SetMin(above)
         IN OutputPosition(i - 1, a - SegmentStart(i - 1))

RECURSIVE Pow2(_)
Pow2(n) == IF n <= 0 THEN 1 ELSE 2 * Pow2(n - 1)

\* Adjusted offsets probed: up to two past the end of the output.
Probes == 0 .. (OutputLength + 2)

\* C7: the binary search returns what the linear scan returns, for every
\* adjusted offset, and stops after at most log2(length) + 1 iterations
\* (none for the empty array).
C7_BinarySearchIsLinearScan ==
    hasLineBreakData =>
        /\ \A a \in Probes :
              LET r == SearchBreakOffsets(a)
              IN /\ OutputPosition(r.mid, a - r.midStart) = LinearScan(a)
                 /\ r.steps = 0 <=> breakOffsets = <<>>
                 /\ r.steps > 0 => Pow2(r.steps - 1) <= Len(breakOffsets)
        /\ CalledGetOutput => outputPosition = LinearScan(AdjustedOffset(inputOffset))

\* An offset was located in an array of at least three break offsets by a
\* search of two iterations.
C7_Witness ==
    /\ hasLineBreakData
    /\ CalledGetOutput
    /\ Len(breakOffsets) >= 3
    /\ SearchBreakOffsets(AdjustedOffset(inputOffset)).steps = 2
    /\ outputPosition = LinearScan(AdjustedOffset(inputOffset))

\* ------------------------------------------------------------------- C8
\* Number of output lines of the line: the distinct output line indices of
\* its offsets; 1 for a line without LineBreakData.
getModelLineViewLineCount ==
    IF ~hasLineBreakData THEN 1
    ELSE Cardinality({getOutputPositionOfInputOffset(o).outputLineIndex :
                         o \in 0 .. lineLength})

C9_AlwaysExpanded == expanded = TRUE

\* setExpanded(false) was the last call.
C9_Witness ==
    /\ log # <<>>
    /\ log[Len(log)].op = "setExpanded"
    /\ log[Len(log)].arg = FALSE
    /\ _expanded = "true"

\* ------------------------------------------------------------------- C10
\* C10: a configuration change delivers one onDidChange notification when it
\* changes the suggest option and no setExpanded call precedes it, and none
\* otherwise; every setExpanded call delivers exactly one.
C10_NotificationOrder ==
    \A i \in 1 .. Len(log) :
        /\ log[i].op = "onDidChangeConfiguration" =>
              log[i].fired =
                 (IF log[i].arg /\ \A j \in 1 .. (i - 1) : log[j].op # "setExpanded"
                  THEN 1 ELSE 0)
        /\ log[i].op = "setExpanded" => log[i].fired = 1

\* A suggest change delivered a notification, then setExpanded was called
\* twice, then a suggest change delivered none.
C10_Witness ==
    /\ Len(log) = 4
    /\ log[1] = LogEntry("onDidChangeConfiguration", TRUE, 1)
    /\ log[2].op = "setExpanded" /\ log[2].fired = 1
    /\ log[3].op = "setExpanded" /\ log[3].fired = 1
    /\ log[4] = LogEntry("onDidChangeConfiguration", TRUE, 0)

====
